---- MODULE Spec2Model ----
(***************************************************************************)
(* Integrator::BrittleFracture (src/src/Integrator/Flame.cpp, lines        *)
(* 517-1103): the staggered elasticity / phase-field damage loop and its   *)
(* quasi-static loading controller.                                        *)
(*                                                                         *)
(* Geometry: one refinement level, a two-dimensional strip of NCells cells *)
(* in x and one cell in y, unit cell size (DX = 1).  Ghost cells of the    *)
(* damage field carry the zero-Neumann boundary condition the constructor  *)
(* installs (lines 560-575).                                               *)
(*                                                                         *)
(* Numbers: every real quantity is an integer in a fixed unit.             *)
(*   damage c               : 1/Res          (Res stands for 1.0)          *)
(*   g_phi average, factor  : 1/GUnit        (GUnit stands for 1.0)        *)
(*   load ramp, disp_*      : 0.1            (DefaultRate = 1 is 0.1)      *)
(*   strain                 : even integers, so that the halves and the    *)
(*                            quarter weights of the source stay exact     *)
(***************************************************************************)
EXTENDS Integers, FiniteSets, Sequences, TLC

\* ------------------------------------------------------------------ bounds
NCells == 2
Res == 3
MaxStep == 5

\* ------------------------------------------------------ program constants
DefaultLambda == 410
DefaultMu == 305
DefaultRate == 1

VARIABLES
    \* fields
    m_c, m_c_old, m_driving_force,
    m_strain, m_energy_pristine, m_energy_pristine_old,
    degrade,            \* per node: the argument ScaledModulus gives DegradeModulus
    model,              \* per node: the model field handed to the operator
    solver_bc_top,      \* elastic.bc_top[1] as handed to bc.Set by the last solve
    \* loading state
    bc_top1, test_step, newCrackProblem, solveElasticity,
    crack_err_norm, c_new_norm,
    stop_requested, plotted,
    \* configuration, fixed by the constructor
    test_init, test_rate, test_max, crackStressTest, tol_crack,
    scaleModulusMax, mobility, dt, lambda, mu,
    tile_size,          \* FabArrayBase::mfiter_tile_size, in cells along the strip
    \* what the constructor selected: crack model, initial condition, material
    crack_type, ic_type, input_material,
    \* refinement: the tags of the last regrid and crack.refinement_threshold
    tags, refinement_threshold,
    \* one cell of CrackProblem's loop in IEEE arithmetic, the Flame integrator,
    \* and the statements of one ElasticityProblem call
    cell, flame, elasticity,
    \* position of the time-stepping driver
    pc

fields == <<m_c, m_c_old, m_driving_force>>
elast == <<m_strain, m_energy_pristine, m_energy_pristine_old, degrade, model,
           solver_bc_top>>
loading == <<bc_top1, test_step, newCrackProblem, solveElasticity,
             crack_err_norm, c_new_norm, stop_requested, plotted>>
config == <<test_init, test_rate, test_max, crackStressTest, tol_crack,
            scaleModulusMax, mobility, dt, lambda, mu, tile_size>>
setup == <<crack_type, ic_type, input_material>>
tagger == <<tags, refinement_threshold>>
apart == <<cell, flame, elasticity>>
vars == <<fields, elast, loading, config, pc, setup, tagger, apart>>

\* ----------------------------------------------------------------- helpers
Max(a, b) == IF a >= b THEN a ELSE b
Min(a, b) == IF a <= b THEN a ELSE b

Cells == 0 .. (NCells - 1)
Nodes == (0 .. NCells) \X (0 .. 1)
GUnit == 4 * Res * Res

RECURSIVE SumTo(_, _)
SumTo(f, n) == IF n < 0 THEN 0 ELSE f[n] + SumTo(f, n - 1)

\* Value of a cell field at (i,j), ghost cells included: zero-Neumann ghosts
\* repeat the adjacent interior value; the strip has the single row j = 0.
At(f, i, j) == f[IF i < 0 THEN 0 ELSE IF i > NCells - 1 THEN NCells - 1 ELSE i]

\* Numeric::Laplacian and twice Numeric::Gradient (centred differences, DX = 1)
Laplacian(f, i, j) ==
    (At(f, i + 1, j) - 2 * At(f, i, j) + At(f, i - 1, j))
  + (At(f, i, j + 1) - 2 * At(f, i, j) + At(f, i, j - 1))

Gradient2(f, i, j) ==
    <<At(f, i + 1, j) - At(f, i - 1, j), At(f, i, j + 1) - At(f, i, j - 1)>>

\* atan2(Dcold(1), Dcold(0)), by the sector the angle falls in
Theta(g) ==
    IF g[2] = 0 THEN (IF g[1] >= 0 THEN "zero" ELSE "pi")
    ELSE IF g[2] > 0 THEN "upper" ELSE "lower"

\* Numeric::Interpolate::NodeToCellAverage: mean of the four nodes of cell (i,j)
NodeToCellAverage(e, i, j) ==
    (e[<<i, j>>] + e[<<i + 1, j>>] + e[<<i, j + 1>>] + e[<<i + 1, j + 1>>]) \div 4

\* ------------------------------------------------------ crack potential model
\* Model::Interface::Crack (Constant): degradation c^2, double well c^2 (1-c)^2
g_phi(cv) == cv * cv
Dg_phi(cv) == 2 * cv
Dw_phi(cv) == 2 * cv * (Res - cv) * (Res - 2 * cv)
Epc(theta) == 1
kappa(theta) == 1
GetMobility(cv) == mobility

\* ------------------------------------------------- degradable elastic material
\* fracture_model_type::operator(): sigma = lambda tr(eps) I + 2 mu eps,
\* eps = <<eps00, eps01, eps10, eps11>>
ModelStress(lam, m, eps) ==
    <<lam * (eps[1] + eps[4]) + 2 * m * eps[1], 2 * m * eps[2],
      2 * m * eps[3], lam * (eps[1] + eps[4]) + 2 * m * eps[4]>>

\* ------------------------------------------------------------ constructor
ValidLambda(l) == IF l <= 0 THEN DefaultLambda ELSE l
ValidMu(m) == IF m <= 0 THEN DefaultMu ELSE m
\* ValidRate keeping a negative rate
KeptRate(r) == r
ValidRate(r) == IF r < 0 THEN DefaultRate ELSE r
ValidMax(m, r) == IF m < 0 \/ m < r THEN r ELSE m

\* IC::Notch / IC::Ellipsoid: intact material with at most one damaged cell
ICFields ==
    {[i \in Cells |-> Res]}
    \cup {[i \in Cells |-> IF i = k THEN v ELSE Res] : k \in Cells, v \in 0 .. (Res - 1)}

ZeroNodes == [n \in Nodes |-> 0]

\* The model field is a local of ElasticityProblem: none exists between the
\* constructor and the first call.  <<lambda, mu, den>> stands for the
\* constants lambda / den and mu / den.
NoModel == [n \in Nodes |-> <<0, 0, 1>>]

\* ------------------------------------------------------------ tiled iteration
\* amrex::MFIter(mf, true) splits the box of the strip into tiles of tile_size
\* cells and runs the loop body once per tile.
NTiles == (NCells + tile_size - 1) \div tile_size
TileLo(t) == t * tile_size
TileHi(t) == Min((t + 1) * tile_size - 1, NCells - 1)

\* mfi.tilebox() of a cell-centred field: the cells of tile t
tilebox(t) == {i \in Cells : TileLo(t) <= i /\ i <= TileHi(t)}

\* mfi.growntilebox(ng) of a nodal field, as far as valid nodes go: the nodes
\* of the cells of tile t, the last node column going to the last tile
growntilebox(t) ==
    {n \in Nodes : /\ TileLo(t) <= n[1]
                   /\ n[1] <= TileHi(t) \/ (TileHi(t) = NCells - 1 /\ n[1] = NCells)}

\* mfi.validbox() of a nodal field: all the nodes of the box, whatever the tile
validbox(t) == Nodes

\* A run whose boxes are not split: the tile is as large as the box
OneTile == tile_size = NCells

\* Member initialisers of BrittleFracture.H and the driver's state before the
\* first step: the first step opens load increment 0.
HeaderDefaults ==
    /\ test_step = 0
    /\ newCrackProblem = TRUE
    /\ solveElasticity = TRUE
    /\ c_new_norm = 0
    /\ stop_requested = FALSE
    /\ plotted = {}

\* crack.type, ic.type and material.model as the constructor accepts them
CrackTypes == {"constant", "sin"}
ICTypes == {"ellipsoid", "notch"}
\* An option the input file does not give: the string keeps its empty default
Unset == ""
\* MaterialModels taking a missing option for isotropic
MaterialModelsOrUnset == {"isotropic", Unset}
MaterialModels == {"isotropic"}

Selected(cracks, ics, materials) ==
    /\ crack_type \in cracks \cap CrackTypes
    /\ ic_type \in ics \cap ICTypes
    /\ input_material \in materials \cap MaterialModels

\* A run that never regrids: no tags are ever made
NoRegrid == tags = {} /\ refinement_threshold = 0

\* The specifications of the whole run keep no separate cell and no Flame object
NoCell == [status |-> "none"]
NoFlame == [status |-> "none"]
NoCall == [at |-> "none"]
Whole == cell = NoCell /\ flame = NoFlame /\ elasticity = NoCall

Construct(inits, rates, maxes, stress, tols, smms, mobs, dts, lams, mus) ==
    /\ test_init \in inits
    /\ \E r \in rates, m \in maxes :
          /\ test_rate = ValidRate(r)
          /\ test_max = ValidMax(m, ValidRate(r))
    /\ crackStressTest \in stress
    /\ tol_crack \in tols
    /\ scaleModulusMax \in smms
    /\ mobility \in mobs
    /\ dt \in dts
    /\ \E l \in lams : lambda = ValidLambda(l)
    /\ \E m \in mus : mu = ValidMu(m)
    \* bc_top[1] = test_init (line 664) is overwritten by bc_top = 0 (line 704)
    /\ bc_top1 = 0
    /\ crack_err_norm = 0
    /\ HeaderDefaults
    \* Initialize(lev)
    /\ m_c \in ICFields
    /\ m_c_old = m_c
    /\ m_driving_force = [i \in Cells |-> <<0, 0, 0, 0>>]
    /\ m_strain = [n \in Nodes |-> <<0, 0, 0, 0>>]
    /\ m_energy_pristine = ZeroNodes
    /\ m_energy_pristine_old = ZeroNodes
    /\ degrade = ZeroNodes
    /\ model = NoModel
    /\ solver_bc_top = 0
    /\ pc = "begin"

\* The constructor as a step: from the state in which the options have been
\* queried into their members (lambda, mu, test_rate, test_max hold what the
\* input file gave) to the constructed and initialised object, or to the abort.
Queried(cracks, ics, materials, lams, mus, rates, maxes) ==
    /\ crack_type \in cracks
    /\ ic_type \in ics
    /\ input_material \in materials
    /\ lambda \in lams
    /\ mu \in mus
    /\ test_rate \in rates
    /\ test_max \in maxes
    /\ test_init = 0
    /\ crackStressTest = FALSE
    /\ tol_crack = <<1, 4>>
    /\ scaleModulusMax = 1
    /\ mobility = 1
    /\ dt = 1
    /\ bc_top1 = 0
    /\ crack_err_norm = 0
    /\ HeaderDefaults
    \* no field is allocated yet
    /\ m_c = [i \in Cells |-> 0]
    /\ m_c_old = m_c
    /\ m_driving_force = [i \in Cells |-> <<0, 0, 0, 0>>]
    /\ m_strain = [n \in Nodes |-> <<0, 0, 0, 0>>]
    /\ m_energy_pristine = ZeroNodes
    /\ m_energy_pristine_old = ZeroNodes
    /\ degrade = ZeroNodes
    /\ model = NoModel
    /\ solver_bc_top = 0
    /\ pc = "construct"

Constructor ==
    /\ pc = "construct"
    /\ IF crack_type \notin CrackTypes \/ ic_type \notin ICTypes
          \/ input_material \notin MaterialModels
       THEN \* Util::Abort, lines 536, 547, 603
            /\ pc' = "aborted"
            /\ UNCHANGED <<fields, elast, loading, config>>
       ELSE /\ lambda' = ValidLambda(lambda)
            /\ mu' = ValidMu(mu)
            /\ test_rate' = ValidRate(test_rate)
            /\ test_max' = ValidMax(test_max, test_rate')
            /\ bc_top1' = 0
            /\ crack_err_norm' = 0
            \* Initialize(lev)
            /\ m_c' \in ICFields
            /\ m_c_old' = m_c'
            /\ m_driving_force' = [i \in Cells |-> <<0, 0, 0, 0>>]
            /\ m_strain' = [n \in Nodes |-> <<0, 0, 0, 0>>]
            /\ m_energy_pristine' = ZeroNodes
            /\ m_energy_pristine_old' = ZeroNodes
            /\ degrade' = ZeroNodes
            /\ model' = NoModel
            /\ solver_bc_top' = 0
            /\ pc' = "begin"
            /\ UNCHANGED <<test_init, crackStressTest, tol_crack, scaleModulusMax,
                           mobility, dt, tile_size, test_step, newCrackProblem, solveElasticity,
                           c_new_norm, stop_requested, plotted>>
    /\ UNCHANGED <<setup, tagger, apart>>

\* ------------------------------------------------------------ ScaledModulus
\* mul * (sum of g_phi over the 2^d cells around node n), in units of 1/GUnit
NodeAverage(cf, n) ==
    g_phi(At(cf, n[1], n[2])) + g_phi(At(cf, n[1] - 1, n[2]))
  + g_phi(At(cf, n[1], n[2] - 1)) + g_phi(At(cf, n[1] - 1, n[2] - 1))

ClipAvg(a) == IF a < 0 THEN 0 ELSE IF a > GUnit THEN GUnit ELSE a

\* DegradeArg taking the larger of the two
DegradeArgMax(avg, smm) == Max(GUnit - avg, GUnit - 4 * Res * smm)
\* std::min(1.-_temp[0], 1.-scaleModulusMax); smm is in units of 1/Res
DegradeArg(avg, smm) == Min(GUnit - avg, GUnit - 4 * Res * smm)

ScaledModulus(cf) ==
    [n \in Nodes |-> DegradeArg(ClipAvg(NodeAverage(cf, n)), scaleModulusMax)]

\* model[ilev].setVal(*modeltype), modeltype = new fracture_model_type(lambda, mu)
PristineModel == [n \in Nodes |-> <<lambda, mu, 1>>]

\* SetVal keeping what the field of the call before held
Carried(mf) == mf
\* What the fresh model field of a call holds after setVal (lines 928-933)
SetVal(mf) == PristineModel

\* DegradeModulus(factor), in place: lambda and mu times factor, factor being
\* f / GUnit
DegradeModulus(m, f) == <<m[1] * f, m[2] * f, m[3] * GUnit>>

\* The loop of ScaledModulus over the tiles 0 .. t of the model field mf
RECURSIVE ScaledModulusTiles(_, _, _)
ScaledModulusTiles(mf, cf, t) ==
    IF t < 0 THEN mf
    ELSE LET done == ScaledModulusTiles(mf, cf, t - 1)
         IN  [n \in Nodes |-> IF n \in growntilebox(t)
                              THEN DegradeModulus(done[n],
                                       DegradeArg(ClipAvg(NodeAverage(cf, n)),
                                                  scaleModulusMax))
                              ELSE done[n]]

\* --------------------------------------------------------- ElasticityProblem
\* What the external linear solver may return: the strain derived from the
\* displacement, uniaxial in y, zero, uniform or concentrated on one node column.
HotColumns == {{}, 0 .. NCells} \cup {{k} : k \in 0 .. NCells}

StrainFields ==
    {[n \in Nodes |-> <<0, 0, 0, IF n[1] \in hot THEN 2 ELSE 0>>] : hot \in HotColumns}

\* energy_box += 0.5*sig(m,n)*eps(m,n) over m,n, onto the zeroed field
PristineEnergy(eps) ==
    LET sig == ModelStress(lambda, mu, eps)
    IN  0 + (sig[1] * eps[1]) \div 2 + (sig[2] * eps[2]) \div 2
          + (sig[3] * eps[3]) \div 2 + (sig[4] * eps[4]) \div 2

\* The loop of lines 1025-1052 over the tiles 0 .. t: each pass adds the energy
\* of every node of mfi.validbox() onto the field e
RECURSIVE PristineEnergyTiles(_, _, _)
PristineEnergyTiles(e, strain, t) ==
    IF t < 0 THEN e
    ELSE LET done == PristineEnergyTiles(e, strain, t - 1)
         IN  [n \in Nodes |-> IF n \in validbox(t)
                              THEN done[n] + PristineEnergy(strain[n])
                              ELSE done[n]]

\* SwappedAndZeroed without the setVal(0.): the field keeps what the swap put there
SwappedOnly(old, cur) == old
\* m_energy_pristine after std::swap(old, cur) and setVal(0.) (lines 934-935)
SwappedAndZeroed(old, cur) == ZeroNodes

\* FillBoundary copying the left neighbour over every cell
FillShifted(cf) == [i \in Cells |-> At(cf, i - 1, 0)]
\* m_c[lev]->FillBoundary() of ScaledModulus (line 760): the ghost cells, which
\* At reads off the valid ones, are refilled; a valid cell keeps its value
FillBoundary(cf) == [i \in Cells |-> At(cf, i, 0)]

ElasticityProblem(ramp, strain) ==
    /\ m_c' = FillBoundary(m_c)
    /\ m_energy_pristine_old' = m_energy_pristine
    /\ degrade' = ScaledModulus(m_c)
    /\ model' = ScaledModulusTiles(SetVal(model), m_c, NTiles - 1)
    /\ solver_bc_top' = ramp
    /\ m_strain' = strain
    /\ m_energy_pristine' =
          PristineEnergyTiles(SwappedAndZeroed(m_energy_pristine_old, m_energy_pristine),
                              strain, NTiles - 1)

\* The statements of ElasticityProblem one by one, on a displacement field that
\* holds a number ("fin") or NaN ("nan") at every node.
contains_nan(disp) == \E n \in Nodes : disp[n] = "nan"

\* What solver.solve may leave in m_disp: a displacement at every node, or NaN
\* at some of them when the multigrid iteration breaks down
SolveOutcomes == [Nodes -> {"fin", "nan"}]

\* A strain is NaN at a node whose own or neighbouring displacement is NaN
StrainNaN(disp) ==
    [n \in Nodes |-> \E m \in Nodes : /\ disp[m] = "nan"
                                       /\ m[1] - n[1] \in -1 .. 1
                                       /\ m[2] - n[2] \in -1 .. 1]

\* line 999: if (m_disp[ilev]->contains_nan()) Util::Warning(INFO)
CheckDisplacement ==
    /\ elasticity.at = "check"
    /\ elasticity' = [elasticity EXCEPT !.warned = contains_nan(elasticity.m_disp),
                                        !.at = "solve"]
    /\ UNCHANGED <<fields, elast, loading, config, pc, setup, tagger, cell, flame>>

\* lines 1013-1014: solver.solve(m_disp, m_rhs, ...), compResidual
LinearSolve ==
    /\ elasticity.at = "solve"
    /\ \E disp \in SolveOutcomes :
          elasticity' = [elasticity EXCEPT !.m_disp = disp, !.at = "derive"]
    /\ UNCHANGED <<fields, elast, loading, config, pc, setup, tagger, cell, flame>>

\* lines 1017-1053: Strain, Stress, Energy and the pristine energy, from m_disp
DeriveFields ==
    /\ elasticity.at = "derive"
    /\ elasticity' = [elasticity EXCEPT !.strain_nan = StrainNaN(elasticity.m_disp),
                                        !.at = "return"]
    /\ UNCHANGED <<fields, elast, loading, config, pc, setup, tagger, cell, flame>>

\* The next TimeStepBegin calls ElasticityProblem again.  A NaN strain is a NaN
\* energy and a NaN rhs, on which CrackProblem aborts (line 911), and the
\* stress test stops after its first step: the call is the last one then.
NextCall ==
    /\ elasticity.at = "return"
    /\ \A n \in Nodes : ~elasticity.strain_nan[n]
    /\ elasticity.calls < MaxStep
    /\ elasticity' = [elasticity EXCEPT !.calls = elasticity.calls + 1,
                                        !.warned = FALSE, !.at = "check"]
    /\ UNCHANGED <<fields, elast, loading, config, pc, setup, tagger, cell, flame>>

NextSolve == CheckDisplacement \/ LinearSolve \/ DeriveFields \/ NextCall

\* ------------------------------------------------------------- TimeStepBegin
\* RampValue one step ahead, and RampValue forgetting the step
RampValueNextStep(init, step, rate) == init + (step + 1) * rate
RampValueNoStep(init, step, rate) == init
RampValue(init, step, rate) == init + step * rate

TimeStepBegin ==
    /\ pc = "begin"
    /\ \E strain \in StrainFields :
          IF crackStressTest
          THEN /\ bc_top1' = RampValue(test_init, test_step, test_rate)
               /\ ElasticityProblem(bc_top1', strain)
               /\ solveElasticity' = FALSE
               /\ UNCHANGED newCrackProblem
          ELSE /\ bc_top1' = IF newCrackProblem
                             THEN RampValue(test_init, test_step, test_rate)
                             ELSE bc_top1
               /\ newCrackProblem' = FALSE
               /\ ElasticityProblem(bc_top1', strain)
               /\ UNCHANGED solveElasticity
    /\ pc' = "advance"
    /\ UNCHANGED <<m_c_old, m_driving_force, config, test_step, crack_err_norm,
                   c_new_norm, stop_requested, plotted, setup, tagger, apart>>

\* -------------------------------------------------------------- CrackProblem
ElasticTerm(cold, e, i) == Dg_phi(cold[i]) * NodeToCellAverage(e, i, 0)
SurfaceTerm(cold, i) == Epc(Theta(Gradient2(cold, i, 0))) * Dw_phi(cold[i])
GradientTerm(cold, i) == kappa(Theta(Gradient2(cold, i, 0))) * Laplacian(cold, i, 0)

RawForce(cold, e, i) ==
    0 + ElasticTerm(cold, e, i) + SurfaceTerm(cold, i) - GradientTerm(cold, i)

\* CombinedForce without the clip at 0
CombinedForceUnclipped(rhs) == rhs
CombinedForce(rhs) == Max(0, rhs)

\* Clamp01 without the reset to 0
Clamp01Upper(x) == IF x > Res THEN Res ELSE x
Clamp01(x) == IF x > Res THEN Res ELSE IF x < 0 THEN 0 ELSE x

\* ExplicitUpdate with the sign of the increment flipped
ExplicitUpdatePlus(cv, rhs, step) == cv + step * CombinedForce(rhs) * GetMobility(cv)
ExplicitUpdate(cv, rhs, step) == cv - step * CombinedForce(rhs) * GetMobility(cv)

\* energy_box reading the field of the call before
energy_box_old(cur, old) == old
\* energy_box = (*m_energy_pristine[lev]).array(mfi), line 889
energy_box(cur, old) == cur

\* The loop body runs over mfi.validbox() once per tile; it reads c_old and the
\* energy and writes c_new and df, so every pass writes the same values.
CrackProblem ==
    LET en == energy_box(m_energy_pristine, m_energy_pristine_old)
    IN  /\ m_c_old' = m_c
        /\ m_driving_force' =
              [i \in Cells |-> <<ElasticTerm(m_c, en, i),
                                 SurfaceTerm(m_c, i),
                                 GradientTerm(m_c, i),
                                 CombinedForce(RawForce(m_c, en, i))>>]
        /\ m_c' = [i \in Cells |-> Clamp01(ExplicitUpdate(m_c[i], RawForce(m_c, en, i), dt))]

Advance ==
    /\ pc = "advance"
    /\ IF crackStressTest THEN UNCHANGED fields ELSE CrackProblem
    /\ pc' = "complete"
    /\ UNCHANGED <<elast, loading, config, setup, tagger, apart>>

\* ------------------------------------------- one cell of CrackProblem, IEEE
\* A double: <<"fin", n>>, <<"inf", 1>> (+infinity), <<"inf", -1>> (-infinity)
\* or <<"nan", 0>>.
Fin(n) == <<"fin", n>>
PInf == <<"inf", 1>>
NInf == <<"inf", -1>>
NaN == <<"nan", 0>>

Sgn(n) == IF n > 0 THEN 1 ELSE IF n < 0 THEN -1 ELSE 0
IsNaN(x) == x[1] = "nan"
IsFinite(x) == x[1] = "fin"

\* x + y: inf + (-inf) is NaN
XAdd(x, y) ==
    IF IsNaN(x) \/ IsNaN(y) THEN NaN
    ELSE IF IsFinite(x) /\ IsFinite(y) THEN Fin(x[2] + y[2])
    ELSE IF IsFinite(x) THEN y
    ELSE IF IsFinite(y) THEN x
    ELSE IF x[2] = y[2] THEN x ELSE NaN

XNeg(x) == <<x[1], 0 - x[2]>>
XSub(x, y) == XAdd(x, XNeg(y))

\* x * y: 0 * inf is NaN
XMul(x, y) ==
    IF IsNaN(x) \/ IsNaN(y) THEN NaN
    ELSE IF IsFinite(x) /\ IsFinite(y) THEN Fin(x[2] * y[2])
    ELSE IF x[2] = 0 \/ y[2] = 0 THEN NaN
    ELSE <<"inf", Sgn(x[2]) * Sgn(y[2])>>

\* x > n and x < n for a finite n: false on NaN
XGreater(x, n) == \/ x = PInf
                  \/ IsFinite(x) /\ x[2] > n
XLess(x, n) == \/ x = NInf
               \/ IsFinite(x) /\ x[2] < n

\* std::max(0., x) is (0. < x) ? x : 0.
XMax0(x) == IF XGreater(x, 0) THEN x ELSE Fin(0)

\* The two resets of lines 914-915
XClamp01(x) == IF XGreater(x, Res) THEN Fin(Res) ELSE IF XLess(x, 0) THEN Fin(0) ELSE x

\* rhs = 0. ; rhs += Dg_phi(c_old) * en_cell ; rhs += Epc * Dw_phi(c_old) ;
\* rhs -= kappa * laplacian, for a flat-angled (Theta = 0) neighbourhood
CellForce(cold, en, lap) ==
    XSub(XAdd(XAdd(Fin(0), XMul(Fin(Dg_phi(cold)), en)),
              Fin(Epc("zero") * Dw_phi(cold))),
         Fin(kappa("zero") * lap))

\* c_old - dt * std::max(0., rhs) * GetMobility(c_old), then the two resets
CellUpdate(cold, rhs) ==
    XClamp01(XSub(Fin(cold), XMul(XMul(Fin(dt), XMax0(rhs)), Fin(GetMobility(cold)))))

\* The body of the ParallelFor of CrackProblem for one cell (lines 892-915)
CrackProblemCell ==
    /\ cell.status = "ready"
    /\ LET rhs == CellForce(cell.c_old, cell.en_cell, cell.laplacian)
       IN  cell' = IF IsNaN(rhs)
                   THEN [cell EXCEPT !.rhs = rhs, !.df3 = XMax0(rhs), !.status = "aborted"]
                   ELSE [cell EXCEPT !.rhs = rhs, !.df3 = XMax0(rhs),
                                     !.c_new = CellUpdate(cell.c_old, rhs),
                                     !.status = "written"]
    /\ UNCHANGED <<fields, elast, loading, config, pc, setup, tagger, flame, elasticity>>

\* ------------------------------------------------------------ Flame::Advance
\* The Flame integrator on uniform fields eta, temp, phi, in IEEE arithmetic:
\* every cell holds the same value, so one cell stands for the mesh.  The
\* material constants are finite and non-zero (alpha = K / rho / cp = 1), the
\* heat fluxes Bn and Bd are 1, and the material is pure AP (phi = 1).
\* Mobilities are integers: 1 stands for the constant 1.0e-14, the smallest
\* mobility the code sets, and the mobilities of the Arrhenius law and the cap
\* L_max are multiples of MobScale, the step of eta.
MobScale == 4

\* x / y: x / 0 is an infinity, or NaN for x = 0; the quotient of two numbers
\* is kept only where it is exact (y divides x)
XDiv(x, y) ==
    IF IsNaN(x) \/ IsNaN(y) THEN NaN
    ELSE IF ~IsFinite(x) /\ ~IsFinite(y) THEN NaN
    ELSE IF ~IsFinite(x) THEN <<"inf", x[2] * (IF y[2] < 0 THEN -1 ELSE 1)>>
    ELSE IF ~IsFinite(y) THEN Fin(0)
    ELSE IF y[2] = 0 THEN (IF x[2] = 0 THEN NaN ELSE <<"inf", Sgn(x[2])>>)
    ELSE Fin(x[2] \div y[2])

\* Numeric::Gradient and Numeric::Laplacian of a uniform field: v - v, which is
\* 0 for a number and NaN for an infinity or NaN; each of the two components
UniformGradient(v) == XSub(v, v)
UniformLaplacian(v) == XAdd(XSub(v, XAdd(v, v)), v)

\* a.dot(b) of two vectors with equal components
Dot(a, b) == XAdd(XMul(a, b), XMul(a, b))

\* lpNorm<2> of a vector with equal components a: sqrt(a^2 + a^2), where a, the
\* gradient of a uniform field, is 0 or NaN
Norm(a) == IF IsNaN(a) THEN NaN ELSE IF IsFinite(a) THEN a ELSE PInf

FlameAlpha == Fin(1)
FlameBn == Fin(1)
FlameBd == Fin(1)

\* lines 318-322 and 440-444: boundary = 0, either value of evolve
dTdtNeumann(eta, temp, small) ==
    LET grad_eta == UniformGradient(eta)
        grad_temp == UniformGradient(temp)
        grad_alpha == UniformGradient(FlameAlpha)
        et == XAdd(eta, Fin(small))
    IN  XAdd(XAdd(XAdd(XAdd(Fin(0),
            XDiv(Dot(grad_eta, XMul(grad_temp, FlameAlpha)), et)),
            Dot(grad_alpha, grad_temp)),
            XMul(FlameAlpha, UniformLaplacian(temp))),
            XDiv(XMul(XMul(Norm(grad_eta), FlameAlpha), FlameBn), et))

\* lines 355-367 (evolve = 1, last term +) and 400-406 (evolve = 0, last term -)
\* eta > 0.1 is eta >= 1 in the unit of eta
dTdtDirichlet(eta, temp, small, evolve) ==
    LET grad_eta == UniformGradient(eta)
        grad_temp == UniformGradient(temp)
        grad_alpha == UniformGradient(FlameAlpha)
        gmag == Norm(grad_eta)
        et == IF evolve = 1 /\ XGreater(eta, 0) THEN eta ELSE XAdd(eta, Fin(small))
        last == IF evolve = 1
                THEN XDiv(XDiv(XMul(XMul(XMul(FlameAlpha, FlameBd), gmag), gmag), et), et)
                ELSE XDiv(XDiv(XMul(XMul(XNeg(FlameAlpha), FlameBd), gmag), et), et)
    IN  XAdd(XAdd(XAdd(XAdd(XAdd(Fin(0),
            XDiv(Dot(grad_eta, XMul(grad_temp, FlameAlpha)), et)),
            Dot(grad_alpha, grad_temp)),
            XMul(FlameAlpha, UniformLaplacian(temp))),
            XDiv(XDiv(XMul(XNeg(FlameAlpha),
                           Dot(grad_eta, XAdd(XMul(eta, grad_temp), XMul(temp, grad_eta)))),
                      et), et)),
            last)

\* tempnew = temp + dt * dTdt
TempNew(temp, dTdt) == XAdd(temp, XMul(Fin(dt), dTdt))

\* exp(-E_ap / temp) in steps of 1/Res: NaN for a NaN temperature, 1 for an
\* infinite one, 0 at temp = 0 and rising with temp below 1; the table takes
\* temp / (temp + 1) for it
ExpTerm(temp) ==
    IF IsNaN(temp) THEN NaN
    ELSE IF ~IsFinite(temp) THEN Fin(Res)
    ELSE IF temp[2] <= 0 THEN Fin(0)
    ELSE Fin((Res * temp[2]) \div (temp[2] + 1))

\* m_ap * P * exp(-E_ap / temp) * phi + m_htpb * exp(-E_htpb / temp) * (1 - phi)
\* with phi = 1; flame.m_ap stands for m_ap * P / Res
Arrhenius(temp) == XMul(Fin(flame.m_ap), ExpTerm(temp))

\* CapMobility without the comparison
Uncapped(mob, lmax) == mob
\* if (mob(i,j,k) > L_max) mob(i,j,k) = L_max, lines 330-332
CapMobility(mob, lmax) == IF XGreater(mob, lmax) THEN Fin(lmax) ELSE mob

\* mob(i,j,k) = 1.0e-14 (line 410) and mob(i,j,k) = 0.0 (line 447)
TinyMobility == Fin(1)
ZeroMobility == Fin(0)

\* etanew = eta - mob * dt * ((lambda / eps) * dw(eta) - eps * kappa * eta_lap),
\* lines 280-285, the bracket being a number for a number eta; a change of eta
\* of less than one step of eta is lost
EtaNew(eta, mob) ==
    XSub(eta, XDiv(XMul(XMul(mob, Fin(dt)), XAdd(XSub(eta, eta), Fin(1))),
                   Fin(MobScale)))

\* tempnew != tempnew, line 372
TempCheck(tempnew) == IsNaN(tempnew)

FlameAdvance ==
    /\ flame.status = "run"
    /\ flame.step < MaxStep
    /\ LET b == flame.boundary
           e == flame.evolve
           etanew == EtaNew(flame.eta, flame.mob)
           \* std::swap(eta_old_mf, eta_mf), std::swap(temp_old_mf, temp_mf):
           \* the loop reads the fields of the previous step
           eta == flame.eta
           temp == flame.temp
           stepped == [flame EXCEPT !.step = flame.step + 1]
       IN  IF b = 0 /\ e = 1
           THEN flame' = [stepped EXCEPT !.eta = etanew,
                             !.temp = TempNew(temp, dTdtNeumann(eta, temp, flame.small)),
                             !.mob = CapMobility(Arrhenius(temp), flame.L_max)]
           ELSE IF b = 1 /\ e = 1
           THEN LET tempnew == TempNew(temp, dTdtDirichlet(eta, temp, flame.small, 1))
                IN  IF IsNaN(UniformGradient(eta)) \/ TempCheck(tempnew)
                       \/ IsNaN(Arrhenius(temp))
                    THEN flame' = [flame EXCEPT !.status = "aborted"]
                    ELSE flame' = [stepped EXCEPT !.eta = etanew, !.temp = tempnew,
                                                  !.mob = Arrhenius(temp)]
           ELSE IF b = 1 /\ e = 0
           THEN flame' = [stepped EXCEPT !.eta = etanew,
                             !.temp = TempNew(temp, dTdtDirichlet(eta, temp, flame.small, 0)),
                             !.mob = TinyMobility]
           ELSE IF b = 0 /\ e = 0
           THEN flame' = [stepped EXCEPT !.eta = etanew,
                             !.temp = TempNew(temp, dTdtNeumann(eta, temp, flame.small)),
                             !.mob = ZeroMobility]
           ELSE \* Util::Abort(INFO, "Bad Inputs")
                flame' = [flame EXCEPT !.status = "aborted"]
    /\ UNCHANGED <<fields, elast, loading, config, pc, setup, tagger, cell, elasticity>>

\* ---------------------------------------------------------- TimeStepComplete
\* elastic.test_step++.  The counter is followed up to MaxStep.  With
\* test_rate = 0 the ramp does not depend on it and MaxStep stands for every
\* larger value, so that an endless run is a cycle; with test_rate > 0 no
\* increment is completed beyond MaxStep.
NextStep(step) == IF step < MaxStep THEN step + 1 ELSE MaxStep

\* Integrate, summed over the valid cells (cell volume 1)
IntegrateErr(cn, co) ==
    SumTo([i \in Cells |-> (cn[i] - co[i]) * (cn[i] - co[i])], NCells - 1)
IntegrateNorm(cn) == SumTo([i \in Cells |-> cn[i] * cn[i]], NCells - 1)

\* RelErrExceeds with the comparison turned round
RelErrBelow(err, norm, tol) ==
    IF norm = 0 THEN FALSE ELSE err * tol[2] < tol[1] * norm

\* crack_err_norm/c_new_norm > tol_crack in IEEE arithmetic, tol = <<num, den>>:
\* x/0 is +infinity for x > 0, and 0/0 is NaN, which compares false.
RelErrExceeds(err, norm, tol) ==
    IF norm = 0 THEN err > 0 ELSE err * tol[2] > tol[1] * norm

\* Integrator::Evolve: the stepping loop ends once SetStopTime has put the stop
\* time behind the current time, and otherwise begins the next step.
AfterComplete(stop) == IF stop THEN "stopped" ELSE "begin"

\* StopDue with > for >=
StopDueStrict(ramp, max) == ramp > max
StopDue(ramp, max) == ramp >= max

TimeStepComplete ==
    /\ pc = "complete"
    /\ IF crackStressTest
       THEN /\ plotted' = plotted \cup {test_step}
            /\ stop_requested' = TRUE
            /\ UNCHANGED <<crack_err_norm, c_new_norm, newCrackProblem, test_step>>
       ELSE LET err == IntegrateErr(m_c, m_c_old)
                norm == IntegrateNorm(m_c)
            IN  IF RelErrExceeds(err, norm, tol_crack)
                THEN /\ crack_err_norm' = err
                     /\ c_new_norm' = norm
                     /\ UNCHANGED <<plotted, newCrackProblem, test_step, stop_requested>>
                ELSE /\ test_step < MaxStep \/ test_rate = 0
                     /\ plotted' = plotted \cup {test_step}
                     /\ newCrackProblem' = TRUE
                     /\ test_step' = NextStep(test_step)
                     /\ stop_requested' = (stop_requested \/ StopDue(bc_top1, test_max))
                     /\ crack_err_norm' = 0
                     /\ c_new_norm' = 0
    /\ pc' = AfterComplete(stop_requested')
    /\ UNCHANGED <<fields, elast, config, bc_top1, solveElasticity, setup, tagger, apart>>

Next == TimeStepBegin \/ Advance \/ TimeStepComplete

\* ---------------------------------------------------- TagCellsForRefinement
\* (C_NEW(i+1,j) - C_NEW(i-1,j)) / (2 dx[0]) and the same in y, times 2 DX
TagGradient2(f, i, j) ==
    <<At(f, i + 1, j) - At(f, i - 1, j), At(f, i, j + 1) - At(f, i, j - 1)>>

\* (2 DX * grad)^2 = (2 DX * gradx)^2 + (2 DX * grady)^2
GradMag2(f, i, j) ==
    TagGradient2(f, i, j)[1] * TagGradient2(f, i, j)[1]
  + TagGradient2(f, i, j)[2] * TagGradient2(f, i, j)[2]

\* ExceedsThreshold with >= for >
ReachesThreshold(g2, t) == t < 0 \/ g2 >= t * t
\* grad * dr > refinement_threshold.  dr = sqrt(2) DX, and the threshold t is
\* counted in units of dr / (2 DX Res), so that the test is sqrt(g2) > t for the
\* integer g2 = GradMag2: true for every t < 0, and g2 > t^2 otherwise.
ExceedsThreshold(g2, t) == t < 0 \/ g2 > t * t

\* The TagBoxArray the regrid hands to the tagger holds no tag
ClearTags == {}

\* A regrid, which the driver may run before a time step begins
TagCellsForRefinement ==
    /\ pc = "begin"
    /\ tags' = ClearTags \cup
                {i \in Cells : ExceedsThreshold(GradMag2(m_c, i, 0), refinement_threshold)}
    /\ UNCHANGED <<fields, elast, loading, config, pc, setup, refinement_threshold, apart>>

NextTag == Next \/ TagCellsForRefinement

\* The program from its construction on
NextSetup == Constructor \/ Next

\* --------------------------------------------------------- specifications
\* Damage physics: all initial fields and kinetics, two load configurations.
Init ==
    /\ Construct({0}, {1}, {1, 2}, BOOLEAN, {<<0, 1>>, <<1, 4>>}, 0 .. Res,
                 {0, 1}, {1, 2}, {2}, {1})
    /\ Selected({"constant"}, {"notch"}, {"isotropic"})
    /\ OneTile
    /\ NoRegrid
    /\ Whole

Spec == Init /\ [][Next]_vars

\* Loading controller: all load configurations, one kinetics.
InitLoad ==
    /\ Construct({-1, 0, 2}, {-1, 0, 1, 2}, {-1, 0, 1, 3}, BOOLEAN, {<<0, 1>>, <<1, 4>>},
                 {1}, {1}, {1}, {0}, {0})
    /\ Selected({"constant"}, {"notch"}, {"isotropic"})
    /\ OneTile
    /\ NoRegrid
    /\ Whole

SpecLoad == InitLoad /\ [][Next]_vars

\* The driver keeps stepping until a stop is requested.
FairSpecLoad == SpecLoad /\ WF_vars(Next)

\* Regridding run: one kinetics, every refinement threshold from "tag all" to
\* "tag none".
MaxThreshold == Res + 1

InitTag ==
    /\ Construct({0}, {1}, {1, 2}, {FALSE}, {<<1, 4>>}, {1}, {1}, {1}, {2}, {1})
    /\ Selected({"constant"}, {"notch"}, {"isotropic"})
    /\ OneTile
    /\ tags = {}
    /\ refinement_threshold \in -1 .. MaxThreshold
    /\ Whole

SpecTag == InitTag /\ [][NextTag]_vars

\* One cell of CrackProblem: every damage value, energies finite and not, every
\* Laplacian the neighbours can give.
CellEnergies == {NaN, PInf, NInf} \cup {Fin(4 * e) : e \in 0 .. 2}

InitCell ==
    /\ Construct({0}, {1}, {1}, {FALSE}, {<<1, 4>>}, {1}, {0, 1}, {1}, {2}, {1})
    /\ Selected({"constant"}, {"notch"}, {"isotropic"})
    /\ OneTile
    /\ NoRegrid
    /\ flame = NoFlame
    /\ elasticity = NoCall
    /\ \E c \in 0 .. Res, en \in CellEnergies, lap \in (0 - Res) .. Res :
          cell = [status |-> "ready", c_old |-> c, en_cell |-> en, laplacian |-> lap,
                  rhs |-> Fin(0), df3 |-> Fin(0), c_new |-> Fin(c)]

SpecCell == InitCell /\ [][CrackProblemCell]_vars

\* Construction: every selection of crack model, IC and material, named, unknown
\* or left unset, and elastic constants and load steps in and out of range.
InitSetup ==
    /\ Queried({"constant", "sin", "cubic", Unset}, {"ellipsoid", "notch", "sphere", Unset},
               {"isotropic", "cubic", Unset}, {-2, 0, 2}, {0, 1}, {-1, 0, 2}, {-1, 0, 3})
    /\ OneTile
    /\ NoRegrid
    /\ Whole

SpecSetup == InitSetup /\ [][NextSetup]_vars

\* The calls of ElasticityProblem of one run, the displacement being 0 at first
\* (Initialize, line 736).
InitSolve ==
    /\ Construct({0}, {1}, {1}, {FALSE}, {<<1, 4>>}, {1}, {1}, {1}, {2}, {1})
    /\ m_c = [i \in Cells |-> Res]
    /\ Selected({"constant"}, {"notch"}, {"isotropic"})
    /\ OneTile
    /\ NoRegrid
    /\ cell = NoCell
    /\ flame = NoFlame
    /\ elasticity = [at |-> "check", calls |-> 1, warned |-> FALSE,
                     m_disp |-> [n \in Nodes |-> "fin"],
                     strain_nan |-> [n \in Nodes |-> FALSE]]

SpecSolve == InitSolve /\ [][NextSolve]_vars

\* Flame runs: every mode of (conditional.boundary, conditional.evolve) and one
\* value outside, burnt (eta = 0) to solid (eta = Res) material, small = 0 and
\* small > 0, a range of initial temperatures thermal.bound, an Arrhenius law
\* with and without a prefactor, and a cap L_max it does and does not reach.
InitFlame ==
    /\ Construct({0}, {1}, {1}, {FALSE}, {<<1, 4>>}, {1}, {1}, {1}, {2}, {1})
    /\ m_c = [i \in Cells |-> Res]
    /\ Selected({"constant"}, {"notch"}, {"isotropic"})
    /\ OneTile
    /\ NoRegrid
    /\ cell = NoCell
    /\ elasticity = NoCall
    /\ \E b \in 0 .. 2, e \in 0 .. 1, sm \in 0 .. 1, et \in 0 .. Res, t \in 1 .. Res,
          m \in {0, MobScale}, lm \in {MobScale, Res * MobScale} :
          flame = [status |-> "run", boundary |-> b, evolve |-> e, small |-> sm,
                   eta |-> Fin(et), temp |-> Fin(t), mob |-> Fin(0), step |-> 0,
                   m_ap |-> m, L_max |-> lm]

SpecFlame == InitFlame /\ [][FlameAdvance]_vars

\* Tiled runs in normal mode: every tile size from one cell to the whole box.
InitTile ==
    /\ Construct({0}, {1}, {1, 2}, {FALSE}, {<<0, 1>>, <<1, 4>>}, {1, Res},
                 {1}, {1, 2}, {2}, {1})
    /\ Selected({"constant"}, {"notch"}, {"isotropic"})
    /\ tile_size \in 1 .. NCells
    /\ NoRegrid
    /\ Whole

SpecTile == InitTile /\ [][Next]_vars

\* ---------------------------------------------------------------- properties
\* The integer units lose nothing: every half and quarter taken is exact.
ExactArithmetic ==
    /\ \A n \in Nodes : m_energy_pristine[n] % 4 = 0
    /\ \A n \in Nodes : \A k \in 1 .. 4 : m_strain[n][k] % 2 = 0

NormalMode == ~crackStressTest

\* What TimeStepComplete finds when it compares the integrated norms
RelativeErrorAboveTol ==
    LET err == IntegrateErr(m_c, m_c_old)
        norm == IntegrateNorm(m_c)
    IN  IF norm = 0 THEN err > 0 ELSE err * tol_crack[2] > tol_crack[1] * norm

\* C1: from an initial damage field within [0,1], every cell of c and of c_old
\* stays within [0,1] in every state of every TimeStepBegin / Advance /
\* TimeStepComplete cycle; an update landing outside is clamped and the run goes on.
DamageBounds ==
    \A i \in Cells : /\ 0 <= m_c[i] /\ m_c[i] <= Res
                     /\ 0 <= m_c_old[i] /\ m_c_old[i] <= Res

\* C1 witness: CrackProblem has run, the raw explicit update of some cell fell
\* below 0, the cell holds 0, and the driver goes on to TimeStepComplete.
DamageClampedAtZero ==
    /\ pc = "complete" /\ NormalMode
    /\ \E i \in Cells :
          /\ m_c_old[i] - dt * Max(0, RawForce(m_c_old, m_energy_pristine, i)) * mobility < 0
          /\ m_c[i] = 0

\* C2: in every cell the stored combined force (component 3 of the driving-force
\* field) is max(0, elastic + surface - gradient), is never negative, and is the
\* force that multiplies dt and the mobility in the damage update.
NoHealingForce ==
    \A i \in Cells :
        LET df == m_driving_force[i]
        IN  /\ df[4] >= 0
            /\ df[4] = Max(0, df[1] + df[2] - df[3])
            /\ m_c[i] = Max(0, Min(Res, m_c_old[i] - dt * df[4] * mobility))

\* C2 witness: after an explicit step some cell has a negative raw force, made
\* of a negative surface term and a positive gradient term, stored clipped as 0.
NegativeRawForceClipped ==
    /\ pc = "complete" /\ NormalMode
    /\ \E i \in Cells :
          LET df == m_driving_force[i]
          IN  df[1] + df[2] - df[3] < 0 /\ df[2] < 0 /\ df[3] > 0 /\ df[4] = 0

\* C3: no step of the run raises the damage value of any cell, and after every
\* Advance c_new <= c_old cell by cell (dt >= 0, mobility >= 0).
Irreversibility ==
    [][\A i \in Cells : m_c'[i] <= m_c[i] /\ m_c'[i] <= m_c_old'[i]]_vars

\* C3 witness: in a later load increment an Advance has lowered some cell.
DamageDecreasedInLaterIncrement ==
    /\ pc = "complete" /\ NormalMode /\ test_step >= 1
    /\ \E i \in Cells : m_c[i] < m_c_old[i]

\* C4 as claimed: after an elasticity solve the argument given to DegradeModulus
\* lies in [1 - scaleModulusMax, 1] at every node.
DegradationFactorRange ==
    pc \in {"advance", "complete"} =>
        \A n \in Nodes : /\ GUnit - 4 * Res * scaleModulusMax <= degrade[n]
                         /\ degrade[n] <= GUnit

\* C4 amended: after an elasticity solve the argument given to DegradeModulus
\* lies in [0, 1 - scaleModulusMax] at every node.
DegradationFactorCapped ==
    pc \in {"advance", "complete"} =>
        \A n \in Nodes : /\ 0 <= degrade[n]
                         /\ degrade[n] <= GUnit - 4 * Res * scaleModulusMax

\* C4 witness: a solve has run, and at one node the cap decides the argument
\* (1 - average exceeds 1 - scaleModulusMax) while at another the average does.
DegradationCapActive ==
    /\ pc = "advance" /\ scaleModulusMax > 0 /\ scaleModulusMax < Res
    /\ \E n \in Nodes : /\ degrade[n] = GUnit - 4 * Res * scaleModulusMax
                        /\ GUnit - NodeAverage(m_c, n) > degrade[n]
    /\ \E n \in Nodes : /\ degrade[n] = GUnit - NodeAverage(m_c, n)
                        /\ degrade[n] < GUnit - 4 * Res * scaleModulusMax

\* C5: the applied top-face displacement elastic.bc_top[1] never decreases, from
\* construction onward.
RampMonotone == [][bc_top1' >= bc_top1]_vars

\* C6 as claimed: in every reachable state the ramp is at most test_max.
RampBounded == bc_top1 <= test_max

\* C6 amended: the ramp is 0 after construction, test_init on the first
\* increment, and on every later increment strictly below test_max + test_rate.
RampOvershootBound ==
    \/ bc_top1 = 0
    \/ bc_top1 = test_init
    \/ bc_top1 < test_max + test_rate

\* C6 witness: a later increment has been started with a ramp above test_max.
RampOvershoots ==
    /\ NormalMode /\ test_step >= 1 /\ pc = "advance"
    /\ bc_top1 > test_max /\ bc_top1 # test_init /\ bc_top1 # 0

\* C7: in normal mode a stop is requested only with the current ramp >= test_max,
\* it is requested when the first increment with ramp >= test_max converges, no
\* increment is started after an increment whose ramp reached test_max, and
\* nothing runs once the stop is requested.
StopExactlyAtMax ==
    [][NormalMode =>
        /\ ~stop_requested
        /\ stop_requested' => bc_top1 >= test_max
        /\ (pc = "complete" /\ ~RelativeErrorAboveTol /\ bc_top1 >= test_max)
              => (stop_requested' /\ pc' = "stopped")
        /\ (pc = "begin" /\ newCrackProblem /\ test_step >= 1) => bc_top1 < test_max]_vars

\* C7 witness: a normal-mode run that started below test_max has been stopped
\* after several increments.
StoppedAtMax ==
    /\ NormalMode /\ pc = "stopped" /\ stop_requested
    /\ test_step >= 3 /\ test_init < test_max /\ bc_top1 >= test_max

\* C8 as claimed: in normal mode every accepted configuration eventually
\* reaches a ramp >= test_max and stops.
Termination == NormalMode => <>(stop_requested /\ bc_top1 >= test_max)

\* C8 amended: in normal mode every accepted configuration with disp_step > 0
\* eventually reaches a ramp >= test_max and stops.
TerminationPositiveRate ==
    (NormalMode /\ test_rate > 0) => <>(stop_requested /\ bc_top1 >= test_max)

\* With disp_step = 0 and disp_init below max_disp no stop is ever requested,
\* however many increments converge.
ZeroRateNeverStops ==
    (NormalMode /\ test_rate = 0 /\ test_init < test_max) => ~stop_requested

\* C8 witness: a normal-mode run with a positive rate, started below test_max,
\* has climbed to test_max and stopped.
ClimbedAndStopped ==
    /\ NormalMode /\ test_rate > 0 /\ test_init < test_max
    /\ stop_requested /\ bc_top1 >= test_max /\ test_step >= 2

\* C9: an unconverged TimeStepComplete leaves test_step, the ramp and the
\* newCrackProblem flag alone, writes no checkpoint and requests no stop; the
\* TimeStepBegin that follows keeps the ramp and solves elasticity with it.
UnconvergedRepeatsSameLoad ==
    [][/\ (pc = "complete" /\ NormalMode /\ RelativeErrorAboveTol)
            => /\ test_step' = test_step
               /\ bc_top1' = bc_top1
               /\ newCrackProblem' = newCrackProblem
               /\ ~newCrackProblem'
               /\ plotted' = plotted
               /\ ~stop_requested'
               /\ pc' = "begin"
       /\ (pc = "begin" /\ NormalMode /\ crack_err_norm > 0)
            => /\ bc_top1' = bc_top1
               /\ solver_bc_top' = bc_top1
               /\ m_energy_pristine_old' = m_energy_pristine
               /\ pc' = "advance"]_vars

\* C9 witness: after an unconverged step elasticity has been solved again at the
\* unchanged ramp of a later increment.
ResolvedAfterUnconverged ==
    /\ pc = "advance" /\ NormalMode /\ crack_err_norm > 0
    /\ test_step >= 1 /\ solver_bc_top = bc_top1
    /\ bc_top1 = test_init + test_step * test_rate

\* C10: a converged TimeStepComplete writes the checkpoint labelled test_step,
\* zeroes both norms, raises test_step by exactly 1 (while the counter is below
\* MaxStep, where the model follows it) and flags a new increment;
\* the next TimeStepBegin sets the ramp to test_init + test_step * test_rate,
\* exactly test_rate above the previous increment's ramp.
ConvergedAdvancesLoad ==
    [][/\ (pc = "complete" /\ NormalMode /\ ~RelativeErrorAboveTol)
            => /\ plotted' = plotted \cup {test_step}
               /\ crack_err_norm' = 0 /\ c_new_norm' = 0
               /\ test_step < MaxStep => test_step' = test_step + 1
               /\ newCrackProblem'
       /\ (pc = "begin" /\ NormalMode /\ newCrackProblem)
            => /\ bc_top1' = test_init + test_step * test_rate
               /\ solver_bc_top' = bc_top1'
               /\ test_step >= 1 => bc_top1' = bc_top1 + test_rate]_vars

\* C10 witness: with zero error and a non-zero norm a step converged, and the
\* next increment has begun one test_rate higher.
AdvancedByOneStep ==
    /\ pc = "advance" /\ NormalMode /\ ~newCrackProblem
    /\ test_step >= 1 /\ test_rate > 0 /\ (test_step - 1) \in plotted
    /\ crack_err_norm = 0 /\ c_new_norm = 0
    /\ IntegrateErr(m_c, m_c_old) = 0 /\ IntegrateNorm(m_c) > 0
    /\ bc_top1 = test_init + test_step * test_rate
    /\ solver_bc_top = bc_top1

\* C11: in CrackProblem every cell whose raw combined force elastic + surface -
\* gradient is <= 0 keeps its damage value exactly: c_new = c_old, and the
\* force stored for it is 0.
ClippingLeavesDamageUnchanged ==
    [][(pc = "advance" /\ NormalMode) =>
          \A i \in Cells :
              RawForce(m_c, m_energy_pristine, i) <= 0
                  => /\ m_c'[i] = m_c[i]
                     /\ m_c'[i] = m_c_old'[i]
                     /\ m_driving_force'[i][4] = 0]_vars

\* C11 witness: CrackProblem has run on a partly damaged field, and a cell with
\* a strictly negative raw force (negative surface term, positive gradient
\* term, no energy) kept its value.
UnchangedUnderNegativeForce ==
    /\ pc = "complete" /\ NormalMode
    /\ \E i \in Cells :
          /\ RawForce(m_c_old, m_energy_pristine, i) < 0
          /\ 0 < m_c_old[i] /\ m_c_old[i] < Res
          /\ m_c[i] = m_c_old[i]

\* The flat, fully intact field without pristine energy: CrackProblem has run
\* and left every cell at 1.
FlatIntactUnchanged ==
    /\ pc = "complete" /\ NormalMode
    /\ \A i \in Cells : m_c_old[i] = Res /\ m_c[i] = Res
    /\ \A n \in Nodes : m_energy_pristine[n] = 0

\* The field is flat and fully intact, and the pristine energy is uniform and
\* positive
FlatIntactLoaded(cf, e) ==
    /\ \A i \in Cells : cf[i] = Res
    /\ \A n \in Nodes : e[n] = e[<<0, 0>>]
    /\ e[<<0, 0>>] > 0

\* C12 as claimed: for c_old = 1 everywhere, uniform energy E0 > 0 and a flat
\* field, CrackProblem leaves 1 - dt * Dg_phi(1) * E0 * GetMobility(1) in every cell.
FlatLoadedUpdateUnclamped ==
    [][(pc = "advance" /\ NormalMode /\ FlatIntactLoaded(m_c, m_energy_pristine)) =>
          \A i \in Cells :
              m_c'[i] = Res - dt * Dg_phi(Res) * m_energy_pristine[<<0, 0>>] * GetMobility(Res)]_vars

\* C12 amended: for every cell CrackProblem writes
\* c_new = clamp(c_old - dt * max(0, Dg_phi(c_old) * E + Epc(theta) * Dw_phi(c_old)
\* - kappa(theta) * Laplacian(c_old)) * GetMobility(c_old), 0, 1), E the cell
\* average of the node-centred pristine energy; for c_old = 1, uniform E0 > 0 and
\* a flat field that is clamp(1 - dt * Dg_phi(1) * E0 * GetMobility(1), 0, 1).
ExplicitUpdateRule ==
    [][(pc = "advance" /\ NormalMode) =>
          /\ \A i \in Cells :
                LET th == Theta(Gradient2(m_c, i, 0))
                    E == NodeToCellAverage(m_energy_pristine, i, 0)
                    rhs == Dg_phi(m_c[i]) * E + Epc(th) * Dw_phi(m_c[i])
                           - kappa(th) * Laplacian(m_c, i, 0)
                IN  /\ m_c'[i] = Max(0, Min(Res, m_c[i] - dt * Max(0, rhs) * GetMobility(m_c[i])))
                    /\ m_c_old'[i] = m_c[i]
          /\ FlatIntactLoaded(m_c, m_energy_pristine) =>
                \A i \in Cells :
                    m_c'[i] = Max(0, Min(Res,
                        Res - dt * Dg_phi(Res) * m_energy_pristine[<<0, 0>>] * GetMobility(Res)))]_vars

\* C12 witness: CrackProblem has run on the flat intact field under a uniform
\* positive energy with a positive mobility; the explicit update fell below 0
\* and every cell holds the clamped value.
FlatLoadedUpdateClamped ==
    /\ pc = "complete" /\ NormalMode /\ mobility > 0
    /\ FlatIntactLoaded(m_c_old, m_energy_pristine)
    /\ Res - dt * Dg_phi(Res) * m_energy_pristine[<<0, 0>>] * mobility < 0
    /\ \A i \in Cells : m_c[i] = 0

\* What the tagger finds in the current damage field
TaggedNow == {i \in Cells : GradMag2(m_c, i, 0) > refinement_threshold * refinement_threshold
                            \/ refinement_threshold < 0}

\* C13: TagCellsForRefinement marks a cell if and only if its centred-difference
\* gradient magnitude times the cell diagonal is strictly greater than
\* refinement_threshold (a cell at equality stays untagged), and it changes
\* nothing but the tags.
TagIffAboveThreshold ==
    [][(pc = "begin" /\ pc' = "begin") =>
          /\ \A i \in Cells :
                i \in tags' <=>
                    \/ refinement_threshold < 0
                    \/ GradMag2(m_c, i, 0) > refinement_threshold * refinement_threshold
          /\ UNCHANGED <<fields, elast, loading, config, setup, refinement_threshold>>]_vars

\* C13 witness: on an evolved damage field a regrid with a positive threshold
\* has tagged the cells of the ramp, whose gradient is above the threshold.
TaggedAboveThreshold ==
    /\ pc = "begin" /\ test_step >= 1 /\ refinement_threshold > 0
    /\ tags # {} /\ tags = TaggedNow
    /\ \E i \in tags : GradMag2(m_c, i, 0) = (refinement_threshold + 1) * (refinement_threshold + 1)

\* C14: whenever the raw combined force rhs of a cell is NaN, +infinity or
\* -infinity, CrackProblem aborts and writes no damage value for the cell.
NonFiniteForceIsFatal ==
    [][(cell.status = "ready"
        /\ ~IsFinite(CellForce(cell.c_old, cell.en_cell, cell.laplacian)))
          => (cell'.status = "aborted" /\ cell'.c_new = cell.c_new)]_vars

\* Only a NaN force aborts; an infinite one is clipped or clamped like any other
\* and leaves a damage value behind.
NaNForceIsFatal ==
    [][(cell.status = "ready"
        /\ IsNaN(CellForce(cell.c_old, cell.en_cell, cell.laplacian)))
          => (cell'.status = "aborted" /\ cell'.c_new = cell.c_new)]_vars

\* An infinite force has been taken for a damage update: the cell was written
\* with 0, or with NaN where the mobility is 0.
InfiniteForceWritten ==
    /\ cell.status = "written" /\ cell.rhs = PInf
    /\ cell.c_new \in {Fin(0), NaN}

\* The steps of the run proper
Running == pc \in {"begin", "advance", "complete", "stopped"}

RecoverableParameterErrors ==
    [][/\ (pc = "construct" /\ crack_type \in {"constant", "sin"}
           /\ ic_type \in {"ellipsoid", "notch"} /\ input_material = "isotropic")
             => /\ pc' = "begin"
                /\ lambda' = (IF lambda <= 0 THEN 410 ELSE lambda)
                /\ mu' = (IF mu <= 0 THEN 305 ELSE mu)
                /\ test_rate' >= 0
                /\ test_rate >= 0 => test_rate' = test_rate
                /\ test_max' = (IF test_max < 0 \/ test_max < test_rate'
                                THEN test_rate' ELSE test_max)
       /\ Running' => /\ lambda' > 0 /\ mu' > 0
                      /\ test_rate' >= 0 /\ test_max' >= test_rate']_vars

\* C16 witness: a run is under way on repaired values only: both elastic
\* constants, the step and the maximum are the defaults, which no input gave.
RunningOnDefaults ==
    /\ pc = "complete" /\ test_step >= 1
    /\ lambda = DefaultLambda /\ mu = DefaultMu
    /\ test_rate = DefaultRate /\ test_max = DefaultRate

\* C17: in every ElasticityProblem call the displacement is checked for NaN after
\* the solve of that call and before the fields are derived from it: when the
\* derivation starts on a displacement that holds NaN, the call has warned.
PostSolveDisplacementCheck ==
    (elasticity.at \in {"derive", "return"} /\ contains_nan(elasticity.m_disp))
        => elasticity.warned

\* The check of a call never sees what the solve of that call returns: no call
\* of the run raises the warning at all.
CheckNeverWarns == ~elasticity.warned

\* A later call has derived its fields from a NaN displacement without warning
DerivedFromNaNUnwarned ==
    /\ elasticity.at = "return" /\ elasticity.calls >= 2
    /\ \E n \in Nodes : elasticity.strain_nan[n]
    /\ ~elasticity.warned

\* C18 as claimed: in stress-test mode the damage fields never change, every
\* solve uses the ramp test_init + test_step * test_rate, and an increment that
\* ends below test_max is followed by the next one, one step further.
StressTestSuccessiveIncrements ==
    [][crackStressTest =>
          /\ UNCHANGED fields
          /\ pc = "begin" => /\ bc_top1' = test_init + test_step * test_rate
                             /\ solver_bc_top' = bc_top1'
          /\ (pc = "complete" /\ bc_top1 < test_max)
                => (pc' = "begin" /\ test_step' = test_step + 1)]_vars

\* C18 amended: in stress-test mode elasticity is solved exactly once, with the
\* ramp test_init of step 0; Advance leaves every field alone; the first
\* TimeStepComplete writes checkpoint 0 and stops the run without raising
\* test_step; the damage field, its old copy and the driving force keep their
\* initial values throughout.
StressTestSingleIncrement ==
    [][crackStressTest =>
          /\ UNCHANGED fields
          /\ m_c_old' = m_c' /\ m_c' \in ICFields
          /\ m_driving_force' = [i \in Cells |-> <<0, 0, 0, 0>>]
          /\ test_step = 0 /\ test_step' = 0 /\ plotted = {}
          /\ pc = "begin" => /\ bc_top1' = test_init
                             /\ solver_bc_top' = test_init
                             /\ pc' = "advance"
          /\ pc = "advance" => (pc' = "complete" /\ UNCHANGED <<elast, loading>>)
          /\ pc = "complete" => /\ plotted' = {0}
                                /\ stop_requested'
                                /\ pc' = "stopped"
                                /\ UNCHANGED elast]_vars

\* C18 witness: a stress test on a damaged field under load has stopped after
\* its single solve, at a ramp below test_max, with the damage as it began.
StressTestStopped ==
    /\ crackStressTest /\ pc = "stopped" /\ plotted = {0} /\ test_step = 0
    /\ test_rate > 0 /\ test_init # 0 /\ test_init + test_rate <= test_max
    /\ bc_top1 = test_init /\ solver_bc_top = test_init
    /\ \E n \in Nodes : m_energy_pristine[n] > 0
    /\ \E i \in Cells : 0 < m_c[i] /\ m_c[i] < Res
    /\ m_c = m_c_old

\* C19: in every mode (conditional.boundary, conditional.evolve) of {0,1} x {0,1}
\* a Flame::Advance whose temperature update is not finite aborts: no state of a
\* run that goes on holds a non-finite temperature.
NonFiniteTemperatureIsFatal ==
    (flame.boundary \in {0, 1} /\ flame.evolve \in {0, 1} /\ flame.status = "run")
        => IsFinite(flame.temp)

\* In the mode boundary = 1, evolve = 1 a NaN temperature update aborts.
NaNTemperatureIsFatalInOneMode ==
    (flame.boundary = 1 /\ flame.evolve = 1 /\ flame.status = "run")
        => ~IsNaN(flame.temp)

\* A run in another mode has gone on for several steps with a NaN temperature.
SteppedOnWithNaN ==
    /\ flame.status = "run" /\ flame.step >= 3 /\ IsNaN(flame.temp)
    /\ flame.boundary = 0 /\ flame.evolve = 1

\* C20: every ElasticityProblem call moves the pristine energy of the previous
\* call into m_energy_pristine_old (zeros on the first call) and recomputes
\* m_energy_pristine from zero, out of the strain of this call alone; nothing
\* else writes either field.
PristineEnergyDoubleBuffered ==
    [][/\ pc = "begin" =>
            /\ m_energy_pristine_old' = m_energy_pristine
            /\ m_energy_pristine' = [n \in Nodes |-> PristineEnergy(m_strain'[n])]
            /\ (newCrackProblem /\ test_step = 0) => m_energy_pristine_old' = ZeroNodes
       /\ pc # "begin" => UNCHANGED <<m_energy_pristine, m_energy_pristine_old>>]_vars

\* C20 witness: after a second or later call the old field holds the non-zero
\* energy of the call before, and the current field a different energy: zero
\* where this call's strain is zero although the old one is not, and non-zero
\* elsewhere.
BuffersHoldTwoCalls ==
    /\ pc = "advance"
    /\ \E n \in Nodes : m_energy_pristine_old[n] > 0 /\ m_energy_pristine[n] = 0
    /\ \E n \in Nodes : m_energy_pristine_old[n] = 0 /\ m_energy_pristine[n] > 0

\* The model field a solve makes of the damage field cf, node by node: the base
\* constants, times the one factor ScaledModulus takes from cf
DegradedOnce(cf) ==
    [n \in Nodes |-> <<lambda * ScaledModulus(cf)[n], mu * ScaledModulus(cf)[n], GUnit>>]

\* C21: every ElasticityProblem call hands the solver the model field made of
\* the base constants lambda, mu and the damage field of the moment alone, every
\* node degraded once, whatever the calls before it and however the box is
\* tiled; no other function touches the model field.
DegradationNotCumulative ==
    [][/\ pc = "begin" => model' = DegradedOnce(m_c)
       /\ pc # "begin" => model' = model]_vars

\* C21 witness: a call on a box of several tiles, not the first of the run, has
\* handed over a field that is degraded at some node and differs from the one
\* the call before it would have left, had the damage not changed since.
DegradedAgainAfterDamage ==
    /\ pc = "advance" /\ NTiles > 1
    /\ m_c # m_c_old
    /\ model = DegradedOnce(m_c)
    /\ model # DegradedOnce(m_c_old)
    /\ \E n \in Nodes : 0 < model[n][1] /\ model[n][1] < lambda * GUnit

\* The pristine energy of the strain field eps, node by node
EnergyOf(eps) == [n \in Nodes |-> PristineEnergy(eps[n])]

\* C22: in normal mode every pseudo-time step, a repeat after an unconverged
\* step included, runs TimeStepBegin (the ramp is set if a new increment was
\* flagged, then the elasticity solve uses it), Advance (the damage evolves on
\* the pristine energy that solve has just produced), TimeStepComplete (norms,
\* then the convergence decision), in this order; the ramp changes in
\* TimeStepBegin only, before the solve.
StaggeredOrdering ==
    [][NormalMode =>
          /\ pc = "begin" =>
                /\ bc_top1' = IF newCrackProblem
                               THEN test_init + test_step * test_rate ELSE bc_top1
                /\ solver_bc_top' = bc_top1'
                /\ m_energy_pristine' = EnergyOf(m_strain')
                /\ pc' = "advance"
                /\ UNCHANGED fields
          /\ pc = "advance" =>
                /\ m_energy_pristine = EnergyOf(m_strain)
                /\ solver_bc_top = bc_top1
                /\ \A i \in Cells :
                      /\ m_driving_force'[i][1]
                            = Dg_phi(m_c[i]) * NodeToCellAverage(EnergyOf(m_strain), i, 0)
                      /\ m_c'[i] = Clamp01(m_c[i] - dt * m_driving_force'[i][4] * mobility)
                /\ pc' = "complete"
                /\ UNCHANGED <<elast, loading>>
          /\ pc = "complete" =>
                /\ pc' \in {"begin", "stopped"}
                /\ (pc' = "begin" /\ ~newCrackProblem')
                      <=> RelErrExceeds(IntegrateErr(m_c, m_c_old), IntegrateNorm(m_c),
                                        tol_crack)
                /\ UNCHANGED <<fields, elast, bc_top1>>
          /\ pc \in {"stopped", "aborted", "construct"} => UNCHANGED vars]_vars

\* C22 witness: the repeat of an unconverged step has solved again at the ramp
\* of its increment and evolved the damage on the energy of that solve, which
\* is not the energy of the solve before it.
RepeatEvolvedOnFreshEnergy ==
    /\ NormalMode /\ pc = "complete"
    /\ crack_err_norm > 0
    /\ solver_bc_top = bc_top1
    /\ \E i \in Cells :
          /\ m_driving_force[i][1] > 0
          /\ m_driving_force[i][1]
                # Dg_phi(m_c_old[i]) * NodeToCellAverage(m_energy_pristine_old, i, 0)
          /\ m_c[i] < m_c_old[i]

\* C23: the valid cells of c and c_old change in CrackProblem only: the
\* elasticity solve with ScaledModulus, TimeStepBegin, TimeStepComplete with
\* Integrate, and TagCellsForRefinement leave them as they are; and the step of
\* CrackProblem leaves strain, pristine energies and the model field as they are.
SingleWriterOfDamage ==
    [][/\ pc # "advance" => UNCHANGED <<m_c, m_c_old>>
       /\ pc = "advance" => UNCHANGED elast]_vars

\* C23 witness: after a solve under load and a regrid that tagged a cell,
\* CrackProblem has lowered the damage value of a cell, and c_old holds the
\* field it started from; the energy the solve made is still that of its strain.
DamageWrittenByCrackProblem ==
    /\ pc = "complete" /\ tags # {}
    /\ \E i \in Cells : m_c[i] < m_c_old[i]
    /\ \E n \in Nodes : m_energy_pristine[n] > 0
    /\ m_energy_pristine = EnergyOf(m_strain)

\* C24: after every ElasticityProblem the pristine energy of each node is one
\* evaluation of 0.5 * sigma : epsilon of that node's strain, however many
\* tiles the iteration splits the box into.
PristineEnergyOncePerNode == m_energy_pristine = EnergyOf(m_strain)

\* What the loop leaves: one evaluation for every tile of the box.
PristineEnergyOncePerTile ==
    m_energy_pristine = [n \in Nodes |-> NTiles * PristineEnergy(m_strain[n])]

\* A solve on a box of several tiles has left more than one evaluation at a
\* strained node, and CrackProblem has taken its elastic term from it.
EnergyCountedPerTile ==
    /\ pc = "complete" /\ NTiles > 1
    /\ \E n \in Nodes : /\ PristineEnergy(m_strain[n]) > 0
                          /\ m_energy_pristine[n] = NTiles * PristineEnergy(m_strain[n])
    /\ \E i \in Cells :
          /\ m_c_old[i] > 0
          /\ m_driving_force[i][1]
                > Dg_phi(m_c_old[i]) * NodeToCellAverage(EnergyOf(m_strain), i, 0)

\* The temperature update of the branch (b, e) on the fields of the step before
BranchTemperature(b, e) ==
    IF b = 0 THEN TempNew(flame.temp, dTdtNeumann(flame.eta, flame.temp, flame.small))
    ELSE TempNew(flame.temp, dTdtDirichlet(flame.eta, flame.temp, flame.small, e))

\* C25: every Flame::Advance updates eta with the mobility the step before left
\* and then runs the one temperature / mobility branch that
\* (conditional.boundary, conditional.evolve) in {0,1} x {0,1} selects; any
\* other pair of flags aborts ("Bad Inputs") and no new temperature is taken
\* up; the mobility stored is at most L_max in mode (0,1), 1.0e-14 in mode
\* (1,0) and 0 in mode (0,0).
FlameModeDispatch ==
    [][flame.status = "run" =>
          LET b == flame.boundary
              e == flame.evolve
          IN  IF b \in {0, 1} /\ e \in {0, 1}
              THEN \/ /\ flame'.status = "aborted"
                      /\ b = 1 /\ e = 1
                   \/ /\ flame'.status = "run"
                      /\ flame'.step = flame.step + 1
                      /\ flame'.eta = EtaNew(flame.eta, flame.mob)
                      /\ flame'.temp = BranchTemperature(b, e)
                      /\ (b = 0 /\ e = 1) => ~XGreater(flame'.mob, flame.L_max)
                      /\ (b = 1 /\ e = 0) => flame'.mob = Fin(1)
                      /\ (b = 0 /\ e = 0) => flame'.mob = Fin(0)
              ELSE /\ flame'.status = "aborted"
                   /\ flame'.temp = flame.temp
                   /\ flame'.step = flame.step]_vars

\* C25 witness: in mode (0,1) the Arrhenius mobility of the temperature is above
\* L_max, the stored mobility is L_max, and eta has moved by it in a later step.
MobilityCappedAndUsed ==
    /\ flame.status = "run" /\ flame.boundary = 0 /\ flame.evolve = 1
    /\ flame.step >= 2
    /\ IsFinite(flame.temp)
    /\ XGreater(Arrhenius(flame.temp), flame.L_max)
    /\ flame.mob = Fin(flame.L_max)
    /\ XLess(flame.eta, 0)

\* A run with a flag outside {0,1} has aborted in its first Advance.
BadInputsAborted ==
    /\ flame.status = "aborted" /\ flame.boundary = 2 /\ flame.step = 0

====
